---- MODULE Spec2Model ----
(***************************************************************************)
(* Model of emstr: the EncodeStr contract (len / write into a caller       *)
(* supplied byte buffer) and its implementations for integers, chars,      *)
(* string slices, Hex, Fractional, PadLeft / PadRight and the write!       *)
(* concatenation macro.                                                    *)
(*                                                                         *)
(* A state records one call: the encodable value, the buffer capacity,     *)
(* the result of len(), the result of write() and the buffer afterwards.   *)
(* Bytes are numbers 0..255, text is a sequence of bytes, a buffer is a    *)
(* sequence of bytes (index 1 of the sequence is offset 0 of the slice).   *)
(*                                                                         *)
(* The integers encoded are of up to 64 bits: a value is a sign and a      *)
(* magnitude in base 32768, and the arithmetic of the code (/, %, -, the   *)
(* comparisons with zero) is done on that form, over the whole range of    *)
(* every type, the two's complement minimum included.                      *)
(***************************************************************************)
EXTENDS Integers, Sequences, FiniteSets, TLC

VARIABLES
    checks,   \* TRUE: the build has overflow checks (debug), FALSE: it wraps (release)
    op,       \* the operation of the last call
    self,     \* the leaf value encoded (the inner value of a Fractional or Pad)
    divisor,  \* Fractional.divisor
    width,    \* Pad.width
    pad,      \* Pad.pad (a char, as its code point)
    args,     \* the values given to write!
    cap,      \* buff.len() of the buffer handed to the call
    len,      \* what len() returned
    ret,      \* what write() returned
    buff      \* the buffer after the call

vars == <<checks, op, self, divisor, width, pad, args, cap, len, ret, buff>>

----------------------------------------------------------------------------
(* Bounds of the model *)

\* largest buffer handed to a leaf value or to write!
MaxCap == 20
\* largest buffer handed to a Pad
MaxWrapCap == 8
\* largest buffer handed to a Fractional, but for one of exactly len() bytes
\* and the buffer of the tests
MaxFracCap == 3
\* largest Pad.width
MaxWidth == 6
\* the divisors of a Fractional are 1..MaxDivisor, the powers of ten and the type's maximum
MaxDivisor == 4
\* Hex is given every byte sequence over HexSamples of at most MaxHexLen bytes
MaxHexLen == 2
\* write! is given every list over JoinPool of at most MaxArgs values
MaxArgs == 3
\* sampled values of the wider types lie within Delta of a power of ten or of a limit
Delta == 1

----------------------------------------------------------------------------
(* Bytes and characters *)

Minus == 45
Dot == 46
Zero == 48
Space == 32
Slash == 47

\* let mut buff = [0u8; 32]
TestCap == 32

CHAR_MAP == <<48, 49, 50, 51, 52, 53, 54, 55, 56, 57>>

HEX_MAP == <<48, 49, 50, 51, 52, 53, 54, 55, 56, 57, 97, 98, 99, 100, 101, 102>>

\* a fresh buffer of n bytes, zeroed as in the crate's tests ([0u8; 32])
RECURSIVE Fresh(_)
Fresh(n) == IF n <= 0 THEN <<>> ELSE Append(Fresh(n - 1), 0)

\* buff[i] = x (i counts from 0, i < buff.len())
Store(b, i, x) == SubSeq(b, 1, i) \o <<x>> \o SubSeq(b, i + 2, Len(b))

\* buff[off..]
SliceFrom(b, off) == SubSeq(b, off + 1, Len(b))

\* the buffer b after its sub-slice b[off..] became s
Splice(b, off, s) == SubSeq(b, 1, off) \o s

Max(a, b) == IF a >= b THEN a ELSE b

----------------------------------------------------------------------------
(* Results *)

\* Values are tuples: a result is <<outcome, count>> or <<outcome, count, buffer>>,
\* the outcome being "Ok", an Error variant ("BufferLength") or "Panic".
Res(r) == r[1]
Num(r) == r[2]
Buf(r) == r[3]

LenOk(n) == <<"Ok", n>>
LenPanic == <<"Panic", 0>>

Ok(n, b) == <<"Ok", n, b>>
Err(e, b) == <<e, 0, b>>

----------------------------------------------------------------------------
(* Integers of every width *)

\* An integer value is <<negative, magnitude>>: the magnitude is the sequence
\* of its base 32768 digits ("limbs", each 0..32767), least significant first
\* and without a zero at the end, so that <<>> is zero; zero is not negative.
\* The number is the sum of magnitude[i] * 32768^(i-1), negated when negative
\* is TRUE. Every arithmetic step stays below 2^31.

RECURSIVE Repeat(_, _)
Repeat(x, n) == IF n <= 0 THEN <<>> ELSE Append(Repeat(x, n - 1), x)

RECURSIVE Trim(_)
Trim(m) ==
    IF m = <<>> THEN m
    ELSE IF m[Len(m)] = 0 THEN Trim(SubSeq(m, 1, Len(m) - 1)) ELSE m

\* the magnitude of a number 0 <= n < 2^31
RECURSIVE MagOf(_)
MagOf(n) == IF n = 0 THEN <<>> ELSE <<n % 32768>> \o MagOf(n \div 32768)

Limb(m, i) == IF i <= Len(m) THEN m[i] ELSE 0

\* -1, 0 or 1 as a < b, a = b or a > b
RECURSIVE MagCmpFrom(_, _, _)
MagCmpFrom(a, b, i) ==
    IF i = 0 THEN 0
    ELSE IF a[i] # b[i] THEN (IF a[i] < b[i] THEN -1 ELSE 1)
    ELSE MagCmpFrom(a, b, i - 1)

MagCmp(a, b) ==
    IF Len(a) # Len(b) THEN (IF Len(a) < Len(b) THEN -1 ELSE 1)
    ELSE MagCmpFrom(a, b, Len(a))

RECURSIVE MagAddFrom(_, _, _, _)
MagAddFrom(a, b, i, carry) ==
    IF i > Len(a) /\ i > Len(b) THEN (IF carry = 0 THEN <<>> ELSE <<carry>>)
    ELSE LET sum == Limb(a, i) + Limb(b, i) + carry
         IN  <<sum % 32768>> \o MagAddFrom(a, b, i + 1, sum \div 32768)

MagAdd(a, b) == MagAddFrom(a, b, 1, 0)

\* a - b for a >= b
RECURSIVE MagSubFrom(_, _, _, _)
MagSubFrom(a, b, i, borrow) ==
    IF i > Len(a) THEN <<>>
    ELSE LET diff == a[i] - Limb(b, i) - borrow
         IN  IF diff < 0 THEN <<diff + 32768>> \o MagSubFrom(a, b, i + 1, 1)
             ELSE <<diff>> \o MagSubFrom(a, b, i + 1, 0)

MagSub(a, b) == Trim(MagSubFrom(a, b, 1, 0))

\* a * k + carry for 0 <= k, carry < 32768
RECURSIVE MagMulSmallRaw(_, _, _)
MagMulSmallRaw(a, k, carry) ==
    IF a = <<>> THEN MagOf(carry)
    ELSE LET prod == a[1] * k + carry
         IN  <<prod % 32768>> \o MagMulSmallRaw(Tail(a), k, prod \div 32768)

MagMulSmall(a, k, carry) == Trim(MagMulSmallRaw(a, k, carry))

\* <<a div k, a mod k>> for 0 < k <= 32768: long division from the top limb
RECURSIVE MagDivSmallRaw(_, _)
MagDivSmallRaw(a, k) ==
    IF a = <<>> THEN << <<>>, 0 >>
    ELSE LET high == MagDivSmallRaw(Tail(a), k)
             cur == high[2] * 32768 + a[1]
         IN  << <<cur \div k>> \o high[1], cur % k >>

\* the quotient without its leading zero limbs, the remainder as a magnitude
Trimmed(qr) == <<Trim(qr[1]), MagOf(qr[2])>>
MagDivSmall(a, k) == Trimmed(MagDivSmallRaw(a, k))

\* the largest digit q <= est with b * q <= cur
RECURSIVE QuotientDigit(_, _, _)
QuotientDigit(cur, b, est) ==
    IF MagCmp(MagMulSmall(b, est, 0), cur) > 0 THEN QuotientDigit(cur, b, est - 1) ELSE est

\* the digit estimated from the two top limbs of the running remainder cur
\* and the top limb of b: never too small, and at most 32767
Least(x, y) == IF x < y THEN x ELSE y
Estimate(cur, b) ==
    Least(32767, (Limb(cur, Len(b) + 1) * 32768 + Limb(cur, Len(b))) \div b[Len(b)])

\* the digit q of the running remainder cur put before the digits qs, and
\* what is left of cur
PushDigit(cur, qs, b, q) == << <<q>> \o qs, MagSub(cur, MagMulSmall(b, q, 0)) >>

\* one step of the long division: the limb is appended to the remainder of
\* the higher limbs, and the digit is estimated and corrected
LongDivStep(limb, high, b) ==
    PushDigit(Trim(<<limb>> \o high[2]), high[1], b,
              QuotientDigit(Trim(<<limb>> \o high[2]), b,
                            Estimate(Trim(<<limb>> \o high[2]), b)))

\* <<a div b, a mod b>> for b # 0: long division from the top limb
RECURSIVE MagLongDiv(_, _)
MagLongDiv(a, b) ==
    IF a = <<>> THEN << <<>>, <<>> >>
    ELSE LongDivStep(a[1], MagLongDiv(Tail(a), b), b)

\* a and b are scaled so that the top limb of b is at least 16384, which
\* keeps the estimate within 2 of the digit; the quotient is unchanged
Scaling(b) == 32768 \div (b[Len(b)] + 1)
Unscaled(qr, scale) == <<Trim(qr[1]), MagDivSmall(qr[2], scale)[1]>>
MagDivLarge(a, b) ==
    Unscaled(MagLongDiv(MagMulSmall(a, Scaling(b), 0), MagMulSmall(b, Scaling(b), 0)),
             Scaling(b))

\* <<a div b, a mod b>> for b # 0
MagDivMod(a, b) == IF Len(b) = 1 THEN MagDivSmall(a, b[1]) ELSE MagDivLarge(a, b)

\* an integer value from its sign and magnitude
Norm(negative, m) == <<negative /\ Trim(m) # <<>>, Trim(m)>>

\* the integer value of a number -2^31 < n < 2^31
I(n) == <<n < 0, MagOf(IF n < 0 THEN 0 - n ELSE n)>>

IsNegative(v) == v[1]
IsZero(v) == v[2] = <<>>
IsPositive(v) == ~v[1] /\ v[2] # <<>>

\* a <= b and a < b
Cmp(a, b) ==
    IF a[1] # b[1] THEN (IF a[1] THEN -1 ELSE 1)
    ELSE IF a[1] THEN MagCmp(b[2], a[2]) ELSE MagCmp(a[2], b[2])
Le(a, b) == Cmp(a, b) <= 0

\* the mathematical -v, a + b and |v|
Negate(v) == Norm(~v[1], v[2])
Add(a, b) ==
    IF a[1] = b[1] THEN Norm(a[1], MagAdd(a[2], b[2]))
    ELSE IF MagCmp(a[2], b[2]) >= 0 THEN Norm(a[1], MagSub(a[2], b[2]))
    ELSE Norm(b[1], MagSub(b[2], a[2]))
Abs(v) == <<FALSE, v[2]>>

\* r as usize, for 0 <= r < 2^31
AsUsize(v) == Limb(v[2], 1) + 32768 * Limb(v[2], 2)

----------------------------------------------------------------------------
(* Integer types *)

UintTypes == {"u8", "u16", "u32", "u64", "usize"}
SintTypes == {"i8", "i16", "i32", "i64"}
\* impl_uint_encode!(isize): the machine word signed type gets the unsigned macro
UintMacroTypes == UintTypes \cup {"isize"}
IntTypes == UintTypes \cup SintTypes \cup {"isize"}
SignedTypes == SintTypes \cup {"isize"}

\* the width of a type; usize and isize are those of a 64 bit target
Bits(t) ==
    CASE t \in {"u8", "i8"} -> 8
      [] t \in {"u16", "i16"} -> 16
      [] t \in {"u32", "i32"} -> 32
      [] OTHER -> 64

\* 2^k = 32768^(k div 15) * 2^(k mod 15)
MagPow2(k) == Repeat(0, k \div 15) \o <<2 ^ (k % 15)>>

\* <t>::MAX: 2^Bits(t) - 1 for an unsigned type, 2^(Bits(t) - 1) - 1 for a signed one
MaxTable ==
    [t \in IntTypes |->
        IF t \in UintTypes THEN <<FALSE, MagSub(MagPow2(Bits(t)), <<1>>)>>
        ELSE <<FALSE, MagSub(MagPow2(Bits(t) - 1), <<1>>)>>]
MaxOf(t) == MaxTable[t]

\* <t>::MIN: 0 for an unsigned type, -2^(Bits(t) - 1) for a signed one
MinTable ==
    [t \in IntTypes |-> IF t \in UintTypes THEN I(0) ELSE <<TRUE, MagPow2(Bits(t) - 1)>>]
MinOf(t) == MinTable[t]

InRange(t, v) == Le(MinOf(t), v) /\ Le(v, MaxOf(t))

\* the two's complement minimum, whose negation overflows
IsSignedMin(t, v) == t \in SignedTypes /\ v = MinOf(t)

\* 10^k
RECURSIVE MagPow10(_)
MagPow10(k) == IF k = 0 THEN <<1>> ELSE MagMulSmall(MagPow10(k - 1), 10, 0)
Pow10(k) == <<FALSE, MagPow10(k)>>

\* the powers of ten below 2^64
Pow10s == {Pow10(k) : k \in 0..19}

\* v * 10^k
RECURSIVE Scale(_, _)
Scale(v, k) == IF k = 0 THEN v ELSE Scale(<<v[1], MagMulSmall(v[2], 10, 0)>>, k - 1)

\* 1243566 of test::encode_u64 and test::encode_i64, and the values of
\* test::fractional_i32 and test::fractional_i64: 312214312, 123473634214312,
\* 40000100000000000 and -40000123000000000
Tested ==
    { I(1243566), I(312214312), Add(Scale(I(123473634), 6), I(214312)),
      Scale(I(400001), 11), Scale(I(-40000123), 9) }

\* the values within Delta of a power of ten, of zero and of the maximum of
\* any type, and the tested ones
Marks == Pow10s \cup {I(0)} \cup {MaxOf(u) : u \in IntTypes}
Near == {Add(m, I(d)) : m \in Marks, d \in (0 - Delta)..Delta} \cup Tested
WithNegated(S) == S \cup {Negate(x) : x \in S}

\* those values, their negations and the minimum of any type, as far as the
\* type t has them
Samples(t) == {v \in WithNegated(Near) \cup {MinOf(u) : u \in IntTypes} : InRange(t, v)}

ValuesOf(t) ==
    CASE t = "u8" -> {I(n) : n \in 0..255}
      [] t = "i8" -> {I(n) : n \in -128..127}
      [] OTHER -> Samples(t)

\* Rust's / and % truncate toward zero (b # 0, and not the minimum divided by -1)
\* <<a / b, a % b>>: the quotient has the sign of a * b, the remainder that of a
Signed(negative_a, negative_b, qr) ==
    <<Norm(negative_a # negative_b, qr[1]), Norm(negative_a, qr[2])>>
RustDivRem(a, b) == Signed(a[1], b[1], MagDivMod(a[2], b[2]))
RustDiv(a, b) == RustDivRem(a, b)[1]
RustRem(a, b) == RustDivRem(a, b)[2]

\* -v: with overflow checks the minimum panics, without them it wraps to itself
NegOverflows(t, v) == IsSignedMin(t, v)
WrappingNeg(t, v) == IF IsSignedMin(t, v) THEN v ELSE Negate(v)

\* while v > 0 { v /= 10; n += 1 }
RECURSIVE CountDigits(_, _)
CountDigits(v, n) == IF IsPositive(v) THEN CountDigits(RustDiv(v, I(10)), n + 1) ELSE n

\* impl_uint_encode: len
UintLen(v) == IF IsZero(v) THEN LenOk(1) ELSE LenOk(CountDigits(v, 0))

\* mutant of WriteDigits: the digits are stored in the order they are produced
RECURSIVE WriteDigitsLsbFirst(_, _, _, _, _)
WriteDigitsLsbFirst(b, n, c, v, i) ==
    IF i >= c THEN b
    ELSE WriteDigitsLsbFirst(Store(b, n - c + i, CHAR_MAP[AsUsize(RustRem(v, I(10))) + 1]),
                             n, c, RustDiv(v, I(10)), i + 1)

\* for i in 0..c { r = v % 10; v /= 10; buff[n - i - 1] = CHAR_MAP[r] }
RECURSIVE WriteDigits(_, _, _, _, _)
WriteDigits(b, n, c, v, i) ==
    IF i >= c THEN b
    ELSE WriteDigits(Store(b, n - i - 1, CHAR_MAP[AsUsize(RustRem(v, I(10))) + 1]),
                     n, c, RustDiv(v, I(10)), i + 1)

\* impl_uint_encode: write, for n = self.len()
UintWriteLen(v, b, n) ==
    IF Len(b) < n THEN Err("BufferLength", b)
    ELSE Ok(n, WriteDigits(b, n, n, v, 0))
UintWrite(v, b) == UintWriteLen(v, b, Num(UintLen(v)))

\* impl_sint_encode: len
SintLen(t, v, chk) ==
    IF IsZero(v) THEN LenOk(1)
    ELSE IF IsNegative(v)
         THEN IF NegOverflows(t, v) /\ chk THEN LenPanic
              ELSE LenOk(CountDigits(WrappingNeg(t, v), 1))
         ELSE LenOk(CountDigits(v, 0))

\* the sign is stored only after the length check
SintSign(b, n) == Store(b, 0, Minus)

\* mutant of SintWriteLen: the sign is stored before the length check
SintWriteSignFirst(t, v, b, l) ==
    LET n == Num(l)
        b1 == IF IsNegative(v) /\ Len(b) > 0 THEN Store(b, 0, Minus) ELSE b
    IN  IF Res(l) = "Panic" THEN Err("Panic", b)
        ELSE IF Len(b) < n THEN Err("BufferLength", b1)
        ELSE IF IsNegative(v)
             THEN Ok(n, WriteDigits(b1, n, n - 1, WrappingNeg(t, v), 0))
             ELSE Ok(n, WriteDigits(b, n, n, v, 0))

\* impl_sint_encode: write, for l the outcome of self.len()
SintWriteLen(t, v, b, l) ==
    LET n == Num(l)
    IN  IF Res(l) = "Panic" THEN Err("Panic", b)
        ELSE IF Len(b) < n THEN Err("BufferLength", b)
        ELSE IF IsNegative(v)
             THEN Ok(n, WriteDigits(SintSign(b, n), n, n - 1, WrappingNeg(t, v), 0))
             ELSE Ok(n, WriteDigits(b, n, n, v, 0))
SintWrite(t, v, b, chk) == SintWriteLen(t, v, b, SintLen(t, v, chk))

\* which macro a type is instantiated with
IntLen(t, v, chk) == IF t \in UintMacroTypes THEN UintLen(v) ELSE SintLen(t, v, chk)
IntWrite(t, v, b, chk) ==
    IF t \in UintMacroTypes THEN UintWrite(v, b) ELSE SintWrite(t, v, b, chk)

----------------------------------------------------------------------------
(* Leaf values: integers, chars, string slices and Hex *)

\* a leaf value is <<kind, type, number, bytes>>
KindOf(e) == e[1]
TypeOf(e) == e[2]
ValOf(e) == e[3]
BytesOf(e) == e[4]

IntVal(t, v) == <<"int", t, v, <<>> >>
Char(c) == <<"char", "char", c, <<>> >>
Str(s) == <<"str", "str", 0, s>>
HexOf(b) == <<"hex", "hex", 0, b>>
NoValue == <<"none", "", 0, <<>> >>

\* impl EncodeStr for &str
StrLen(s) == LenOk(Len(s))
StrWrite(s, b) ==
    LET n == Len(s)
    IN  IF n > Len(b) THEN Err("BufferLength", b)
        ELSE Ok(n, s \o SubSeq(b, n + 1, Len(b)))

\* impl EncodeStr for char: one byte, the code point cast to u8
CharLen(c) == LenOk(1)
CharWrite(c, b) ==
    IF 1 > Len(b) THEN Err("BufferLength", b)
    ELSE Ok(1, Store(b, 0, c % 256))

\* impl EncodeStr for Hex
HexLen(bs) == LenOk(Len(bs) * 2)

\* mutant of HexLoop: the low nibble is stored first
RECURSIVE HexLoopLowFirst(_, _, _)
HexLoopLowFirst(b, bs, i) ==
    IF i >= Len(bs) THEN b
    ELSE LET v == bs[i + 1]
         IN  HexLoopLowFirst(Store(Store(b, i * 2, HEX_MAP[(v % 16) + 1]),
                                   i * 2 + 1, HEX_MAP[((v \div 16) % 16) + 1]),
                             bs, i + 1)

RECURSIVE HexLoop(_, _, _)
HexLoop(b, bs, i) ==
    IF i >= Len(bs) THEN b
    ELSE LET v == bs[i + 1]
         IN  HexLoop(Store(Store(b, i * 2, HEX_MAP[((v \div 16) % 16) + 1]),
                           i * 2 + 1, HEX_MAP[(v % 16) + 1]),
                     bs, i + 1)

HexWrite(bs, b) ==
    IF Len(b) < Len(bs) * 2 THEN Err("BufferLength", b)
    ELSE Ok(Len(bs) * 2, HexLoop(b, bs, 0))

\* EncodeStr::len and EncodeStr::write of a leaf value
EncLen(e, chk) ==
    CASE KindOf(e) = "int" -> IntLen(TypeOf(e), ValOf(e), chk)
      [] KindOf(e) = "char" -> CharLen(ValOf(e))
      [] KindOf(e) = "str" -> StrLen(BytesOf(e))
      [] KindOf(e) = "hex" -> HexLen(BytesOf(e))

EncWrite(e, b, chk) ==
    CASE KindOf(e) = "int" -> IntWrite(TypeOf(e), ValOf(e), b, chk)
      [] KindOf(e) = "char" -> CharWrite(ValOf(e), b)
      [] KindOf(e) = "str" -> StrWrite(BytesOf(e), b)
      [] KindOf(e) = "hex" -> HexWrite(BytesOf(e), b)

\* core::str::from_utf8 on bs[i + 1 ..]: TRUE for Ok, FALSE for Err(Utf8Error).
\* A sequence is well formed when it is made of one byte below 0x80, or of a
\* lead byte C2..DF, E0..EF or F0..F4 followed by one, two or three bytes
\* 80..BF, without overlong forms, surrogates or values above U+10FFFF.
RECURSIVE Utf8From(_, _)
Utf8From(bs, i) ==
    IF i >= Len(bs) THEN TRUE
    ELSE LET b0 == bs[i + 1]
             has(k) == i + k <= Len(bs)
             cont(k) == bs[i + k] \in 128..191
             second(lo, hi) == bs[i + 2] \in lo..hi
         IN  CASE b0 < 128 -> Utf8From(bs, i + 1)
               [] b0 \in 194..223 -> has(2) /\ cont(2) /\ Utf8From(bs, i + 2)
               [] b0 = 224 -> has(3) /\ second(160, 191) /\ cont(3) /\ Utf8From(bs, i + 3)
               [] b0 \in (225..236) \cup (238..239) ->
                      has(3) /\ cont(2) /\ cont(3) /\ Utf8From(bs, i + 3)
               [] b0 = 237 -> has(3) /\ second(128, 159) /\ cont(3) /\ Utf8From(bs, i + 3)
               [] b0 = 240 ->
                      has(4) /\ second(144, 191) /\ cont(3) /\ cont(4) /\ Utf8From(bs, i + 4)
               [] b0 \in 241..243 ->
                      has(4) /\ cont(2) /\ cont(3) /\ cont(4) /\ Utf8From(bs, i + 4)
               [] b0 = 244 ->
                      has(4) /\ second(128, 143) /\ cont(3) /\ cont(4) /\ Utf8From(bs, i + 4)
               [] OTHER -> FALSE

from_utf8(bs) == Utf8From(bs, 0)

\* core::str::from_utf8(&buff[..n]).map_err(|_| Error::InvalidUtf8) for the
\* outcome r of write()
AsStr(r) ==
    IF Res(r) # "Ok" THEN r
    ELSE IF from_utf8(SubSeq(Buf(r), 1, Num(r))) THEN r
    ELSE Err("InvalidUtf8", Buf(r))

\* EncodeStr::write_str: write(), then the written bytes taken as text
write_str(e, b, chk) == AsStr(EncWrite(e, b, chk))

----------------------------------------------------------------------------
(* Fractional *)

\* N: Number = EncodeStr + PrimInt + Signed
FracTypes == SignedTypes

\* mutant of FracLenSum: the sign of a negative fraction below one is not counted
FracLenNoSign(value, int_part, dec_part, l, dl) ==
    IF Res(l) = "Panic" THEN LenPanic
    ELSE IF IsZero(dec_part) THEN LenOk(Num(l))
    ELSE IF Res(dl) = "Panic" THEN LenPanic
    ELSE LenOk(Num(l) + Num(dl))

\* Fractional::len, for the outcomes l of int_part.len() and dl of
\* self.divisor.len(), which is called only when the decimal part is not zero
FracLenSum(value, int_part, dec_part, l, dl) ==
    LET sign == IF IsZero(int_part) /\ IsNegative(value) THEN 1 ELSE 0
    IN  IF Res(l) = "Panic" THEN LenPanic
        ELSE IF IsZero(dec_part) THEN LenOk(Num(l))
        ELSE IF Res(dl) = "Panic" THEN LenPanic
        ELSE LenOk(Num(l) + sign + Num(dl))

\* Fractional::len, for parts = <<self.value / self.divisor, self.value % self.divisor>>
FracLenParts(t, value, d, chk, parts) ==
    FracLenSum(value, parts[1], Abs(parts[2]), IntLen(t, parts[1], chk), IntLen(t, d, chk))

\* Fractional::len
FracLen(t, value, d, chk) == FracLenParts(t, value, d, chk, RustDivRem(value, d))

\* for _i in 0..count { buff[n] = byte; n += 1 }: indexing past the end panics
RECURSIVE FillFrom(_, _, _, _)
FillFrom(b, n, count, byte) ==
    IF count <= 0 THEN Ok(n, b)
    ELSE IF n >= Len(b) THEN Err("Panic", b)
    ELSE FillFrom(Store(b, n, byte), n + 1, count - 1, byte)

\* n += e.write(&mut buff[n..])?  for a result r of the write into buff[n..]
Advance(b, n, r) ==
    IF Res(r) = "Ok" THEN Ok(n + Num(r), Splice(b, n, Buf(r)))
    ELSE Err(Res(r), Splice(b, n, Buf(r)))

\* n += v.write(&mut buff[n..])? of an integer v
IntWriteAt(t, v, b, n, chk) == Advance(b, n, IntWrite(t, v, SliceFrom(b, n), chk))

\* Fractional::write, the decimal part after the outcome zeros of the padding
FracDigits(t, dec_part, chk, zeros) ==
    IF Res(zeros) # "Ok" THEN zeros
    ELSE IntWriteAt(t, dec_part, Buf(zeros), Num(zeros), chk)

\* if dl > pl { for _i in 0..(dl - pl - 1) { buff[n] = b'0'; n += 1 } }, for
\* the outcome dot of the write of '.' and the outcomes dl of
\* self.divisor.len() and pl of dec_part.len(): a len() that panics ends the
\* write with the buffer as the '.' left it
FracPadding(dot, dl, pl) ==
    IF Res(dl) = "Panic" \/ Res(pl) = "Panic" THEN Err("Panic", Buf(dot))
    ELSE FillFrom(Buf(dot), Num(dot),
                  IF Num(dl) > Num(pl) THEN Num(dl) - Num(pl) - 1 ELSE 0, Zero)

\* Fractional::write, the part after the outcome dot of the write of '.'
FracAfterDot(t, d, dec_part, chk, dot) ==
    IF Res(dot) # "Ok" THEN dot
    ELSE FracDigits(t, dec_part, chk,
                    FracPadding(dot, IntLen(t, d, chk), IntLen(t, dec_part, chk)))

\* Fractional::write, the part after the integer part
FracDecimals(t, d, dec_part, b, n, chk) ==
    FracAfterDot(t, d, dec_part, chk, Advance(b, n, CharWrite(Dot, SliceFrom(b, n))))

\* Fractional::write, the part after the outcome int of the write of int_part
FracAfterInt(t, d, dec_part, chk, int) ==
    IF Res(int) # "Ok" THEN int
    ELSE IF IsZero(dec_part) THEN int
    ELSE FracDecimals(t, d, dec_part, Buf(int), Num(int), chk)

\* Fractional::write, the part after the outcome signed of the store of the sign
FracAfterSign(t, d, int_part, dec_part, chk, signed) ==
    IF Res(signed) # "Ok" THEN signed
    ELSE FracAfterInt(t, d, dec_part, chk,
                      IntWriteAt(t, int_part, Buf(signed), Num(signed), chk))

\* if int_part == 0 && self.value < 0 { buff[n] = b'-'; n += 1 }
FracSign(value, int_part, b) ==
    IF IsZero(int_part) /\ IsNegative(value) THEN FillFrom(b, 0, 1, Minus) ELSE Ok(0, b)

\* Fractional::write, for parts = <<self.value / self.divisor, self.value % self.divisor>>
FracWriteParts(t, value, d, b, chk, parts) ==
    FracAfterSign(t, d, parts[1], Abs(parts[2]), chk, FracSign(value, parts[1], b))

\* Fractional::write
FracWrite(t, value, d, b, chk) == FracWriteParts(t, value, d, b, chk, RustDivRem(value, d))

----------------------------------------------------------------------------
(* Pad *)

\* mutant of PadLen: the length is the width, whatever the inner value needs
PadLenWidth(inner, w, chk) ==
    LET l == EncLen(inner, chk)
    IN  IF Res(l) = "Panic" THEN LenPanic ELSE LenOk(w)

\* PadRight::len and PadLeft::len
PadLen(inner, w, chk) ==
    LET l == EncLen(inner, chk)
    IN  IF Res(l) = "Panic" THEN LenPanic ELSE LenOk(Max(w, Num(l)))

\* Ok(m) when the fill characters were stored
PadFilled(m, filled) == IF Res(filled) # "Ok" THEN filled ELSE Ok(m, Buf(filled))

\* PadRight::write, for l the outcome of self.inner.len() and r that of
\* self.inner.write(buff)
PadRightFill(w, c, b, l, r) ==
    LET n == Num(l)
        m == Max(w, n)
    IN  IF Res(l) = "Panic" THEN Err("Panic", b)
        ELSE IF Res(r) # "Ok" THEN Err(Res(r), Buf(r))
        ELSE PadFilled(m, FillFrom(Buf(r), n, m - n, c % 256))

\* PadRight::write
PadRightWrite(inner, w, c, b, chk) ==
    PadRightFill(w, c, b, EncLen(inner, chk), EncWrite(inner, b, chk))

\* PadLeft::write, for the buffer b after the p fill characters and the
\* outcome r of self.inner.write(&mut buff[p..])
PadLeftInner(n, p, b, r) ==
    IF Res(r) # "Ok" THEN Err(Res(r), Splice(b, p, Buf(r)))
    ELSE Ok(n + p, Splice(b, p, Buf(r)))

\* PadLeft::write, for the outcome filled of the store of the p fill characters
PadLeftFilled(inner, chk, n, p, filled) ==
    IF Res(filled) # "Ok" THEN filled
    ELSE PadLeftInner(n, p, Buf(filled),
                      EncWrite(inner, SliceFrom(Buf(filled), p), chk))

\* PadLeft::write, for l the outcome of self.inner.len()
PadLeftFill(inner, w, c, b, chk, l) ==
    LET n == Num(l)
        p == Max(w, n) - n
    IN  IF Res(l) = "Panic" THEN Err("Panic", b)
        ELSE PadLeftFilled(inner, chk, n, p, FillFrom(b, 0, p, c % 256))

\* PadLeft::write
PadLeftWrite(inner, w, c, b, chk) == PadLeftFill(inner, w, c, b, chk, EncLen(inner, chk))

----------------------------------------------------------------------------
(* write! *)

RECURSIVE JoinFrom(_, _, _, _, _)

\* mutant of JoinNext: an element's error is dropped and the next element is written
JoinNextKeepGoing(es, i, n, chk, r) ==
    IF Res(r) # "Ok" THEN JoinFrom(es, i + 1, Buf(r), n, chk)
    ELSE JoinFrom(es, i + 1, Buf(r), Num(r), chk)

\* the ? of n += EncodeStr::write(..)?, for the outcome r of the write of
\* the element i, and the elements after it
JoinNext(es, i, n, chk, r) ==
    IF Res(r) # "Ok" THEN r
    ELSE JoinFrom(es, i + 1, Buf(r), Num(r), chk)

\* $( n += EncodeStr::write(& $t, &mut buff[n..])?; )*  Ok(n)
JoinFrom(es, i, b, n, chk) ==
    IF i > Len(es) THEN Ok(n, b)
    ELSE IF n > Len(b) THEN Err("Panic", b)
    ELSE JoinNext(es, i, n, chk, Advance(b, n, EncWrite(es[i], SliceFrom(b, n), chk)))

JoinWrite(es, b, chk) == JoinFrom(es, 1, b, 0, chk)

----------------------------------------------------------------------------
(* Inputs of the calls *)

\* the buffers are of every size up to a bound and of the size the crate's tests use
Caps == (0..MaxCap) \cup {TestCap}
WrapCaps == (0..MaxWrapCap) \cup {TestCap}

\* "", "a", "b", "c", "123", "abc123", "something", and "\u{e9}", "a\u{20ac}"
\* as their UTF-8 bytes
Strings ==
    { <<>>, <<97>>, <<98>>, <<99>>, <<49, 50, 51>>, <<97, 98, 99, 49, 50, 51>>,
      <<115, 111, 109, 101, 116, 104, 105, 110, 103>>,
      <<195, 169>>, <<97, 226, 130, 172>> }

\* ' ', '/', 'c', U+007F, U+0080, U+00E9, U+0141, U+20AC, U+1F600, U+10FFFF
Chars == {Space, Slash, 99, 127, 128, 233, 321, 8364, 128512, 1114111}

\* the data of test::encode_hex and of the module's example
HexData == <<0, 18, 52, 86, 120, 154, 188, 222>>
HexDoc == <<18, 52, 255>>

\* the values write_str() is called on
TextInputs ==
    {Char(c) : c \in Chars} \cup {Str(s) : s \in Strings}
        \cup {IntVal("i16", I(v)) : v \in {-32767, 0, 15}}
        \cup {IntVal("u64", MaxOf("u64")), IntVal("i64", Add(MinOf("i64"), I(1)))}
        \cup {HexOf(HexDoc)}
HexSamples == {0, 9, 10, 15, 16, 154, 255}

RECURSIVE SeqsUpTo(_, _)
SeqsUpTo(S, n) ==
    IF n = 0 THEN {<<>>}
    ELSE LET shorter == SeqsUpTo(S, n - 1)
         IN  shorter \cup {Append(q, x) : q \in shorter, x \in S}

HexInputs ==
    SeqsUpTo(HexSamples, MaxHexLen) \cup {<<x>> : x \in 0..255}
        \cup {SubSeq(HexData, 1, j) : j \in 0..Len(HexData)} \cup {HexDoc}

\* the divisors of a Fractional over t: the small ones, the powers of ten
\* and the limits of the type
FracDivisors(t) ==
    {d \in {I(n) : n \in 1..MaxDivisor} \cup Pow10s \cup {MaxOf(t), MinOf(t)} :
        Le(d, MaxOf(t))}

\* the cases of test::fractional_i16, test::fractional_i32 and
\* test::fractional_i64, the module's example and the 5 / 100 and 5 / 1000 of
\* the comments in Fractional::write
FracTestsSmall ==
    { <<"i16", 10, 10>>, <<"i16", 10, 100>>, <<"i16", -10, 100>>, <<"i16", 15, 10>>,
      <<"i16", 105, 100>>, <<"i16", -10, 10>>, <<"i16", -15, 10>>, <<"i16", -105, 100>>,
      <<"i16", 23041, 1000>>, <<"i16", -23041, 1000>>,
      <<"i32", 10, 10>>, <<"i32", 15, 10>>, <<"i32", 105, 100>>, <<"i32", -10, 10>>,
      <<"i32", -15, 10>>, <<"i32", -105, 100>>, <<"i32", 312214312, 1000000>>,
      <<"i64", 10, 10>>, <<"i64", 15, 10>>, <<"i64", 105, 100>>, <<"i64", -10, 10>>,
      <<"i64", -15, 10>>, <<"i64", -105, 100>>, <<"i64", 105, 1000>>, <<"i64", -105, 1000>>,
      <<"i32", 1234056, 1000>>, <<"i16", 5, 1000>>, <<"i16", 5, 100>> }

FracTests ==
    {<<c[1], I(c[2]), I(c[3])>> : c \in FracTestsSmall}
        \cup { <<"i64", Add(Scale(I(123473634), 6), I(214312)), Pow10(6)>>,
               <<"i64", Scale(I(400001), 11), Pow10(12)>>,
               <<"i64", Scale(I(-40000123), 9), Pow10(12)>> }

\* the type of half the width
Narrower(t) == IF t = "i32" THEN "i16" ELSE "i32"

\* the values of a Fractional: every sampled value of i8 and i16; of i32 and
\* i64 the sampled values that the type of half the width does not have, with
\* the values around zero, ten and a hundred; of isize these last and the limits
FracValues(t) ==
    CASE t \in {"i8", "i16"} -> ValuesOf(t)
      [] t = "isize" -> Samples("i8") \cup {MinOf(t), Add(MinOf(t), I(1)), MaxOf(t)}
      [] OTHER -> {v \in Samples(t) : ~InRange(Narrower(t), v)} \cup Samples("i8")

\* <<type, value, divisor>>
FracInputs ==
    UNION {{<<t, v, d>> : v \in FracValues(t), d \in FracDivisors(t)} : t \in FracTypes}
        \cup FracTests

\* the buffer sizes of a Fractional whose len() is l
FracCaps(l) == (0..MaxFracCap) \cup {Num(l), TestCap}

PadInners ==
    {Str(s) : s \in Strings} \cup {Char(c) : c \in Chars}
        \cup {IntVal(t, v) : t \in {"i16", "isize"}, v \in Samples("i8") \cup {MinOf("i16")}}

PadChars == {Space, Zero, 8364}

JoinPool ==
    { Str(<<97>>), Str(<<115, 111, 109, 101, 116, 104, 105, 110, 103>>),
      Char(Space), IntVal("u8", I(15)), IntVal("i16", MinOf("i16")) }

\* the argument lists of the crate's example and of test::join_str and test::join_ints
JoinDoc ==
    << Str(<<115, 111, 109, 101, 116, 104, 105, 110, 103>>), Char(Space),
       IntVal("u8", I(15)), Char(Slash), IntVal("u8", I(100)) >>
JoinStr == <<Str(<<97>>), Char(Space), Str(<<98>>), Char(Space), Str(<<99>>)>>
JoinInts == <<IntVal("u8", I(12)), Char(Slash), IntVal("u8", I(100))>>

JoinInputs == (SeqsUpTo(JoinPool, MaxArgs) \ {<<>>}) \cup {JoinDoc, JoinStr, JoinInts}

----------------------------------------------------------------------------
(* Calls *)

Init ==
    /\ checks \in BOOLEAN
    /\ op = "none"
    /\ self = NoValue
    /\ divisor = I(1)
    /\ width = 0
    /\ pad = Space
    /\ args = <<>>
    /\ cap = 0
    /\ len = LenOk(0)
    /\ ret = LenOk(0)
    /\ buff = <<>>

\* no call is in progress: the next call gets a fresh buffer
Idle == op = "none"

\* the caller drops the buffer and the value
Return ==
    /\ ~Idle
    /\ op' = "none"
    /\ self' = NoValue
    /\ divisor' = I(1)
    /\ width' = 0
    /\ pad' = Space
    /\ args' = <<>>
    /\ cap' = 0
    /\ len' = LenOk(0)
    /\ ret' = LenOk(0)
    /\ buff' = <<>>
    /\ UNCHANGED checks

\* the call returns the outcome r: the result with its number, and the buffer
Outcome(r) ==
    /\ ret' = <<Res(r), Num(r)>>
    /\ buff' = Buf(r)

\* one call of len() and of write() on a leaf value with a fresh buffer of c bytes
CallLeaf(e, c) ==
    /\ op' = KindOf(e)
    /\ self' = e
    /\ cap' = c
    /\ len' = EncLen(e, checks)
    /\ Outcome(EncWrite(e, Fresh(c), checks))
    /\ UNCHANGED <<checks, divisor, width, pad, args>>

WriteInt ==
    /\ Idle
    /\ \E t \in IntTypes : \E v \in ValuesOf(t) : \E c \in Caps : CallLeaf(IntVal(t, v), c)

WriteChar ==
    /\ Idle
    /\ \E ch \in Chars : \E c \in Caps : CallLeaf(Char(ch), c)

WriteStr ==
    /\ Idle
    /\ \E s \in Strings : \E c \in Caps : CallLeaf(Str(s), c)

WriteHex ==
    /\ Idle
    /\ \E bs \in HexInputs : \E c \in Caps : CallLeaf(HexOf(bs), c)

\* one call of len() and of write_str() on a leaf value with a fresh buffer of
\* c bytes; the text returned is the first Num(ret) bytes of the buffer
CallWriteStr ==
    /\ Idle
    /\ \E e \in TextInputs : \E c \in WrapCaps :
        /\ op' = "write_str"
        /\ self' = e
        /\ cap' = c
        /\ len' = EncLen(e, checks)
        /\ Outcome(write_str(e, Fresh(c), checks))
        /\ UNCHANGED <<checks, divisor, width, pad, args>>

\* len() and write() of Fractional::new(v, d) with a fresh buffer of c bytes
WriteFractional ==
    /\ Idle
    /\ \E in \in FracInputs :
        LET t == in[1]
            v == in[2]
            d == in[3]
        IN  \E c \in FracCaps(FracLen(t, v, d, checks)) :
                /\ op' = "frac"
                /\ self' = IntVal(t, v)
                /\ divisor' = d
                /\ cap' = c
                /\ len' = FracLen(t, v, d, checks)
                /\ Outcome(FracWrite(t, v, d, Fresh(c), checks))
                /\ UNCHANGED <<checks, width, pad, args>>

\* len() and write() of PadRight::new(e, w, p) with a fresh buffer of c bytes
WritePadRight ==
    /\ Idle
    /\ \E e \in PadInners : \E w \in 0..MaxWidth : \E p \in PadChars : \E c \in WrapCaps :
        /\ op' = "padr"
        /\ self' = e
        /\ width' = w
        /\ pad' = p
        /\ cap' = c
        /\ len' = PadLen(e, w, checks)
        /\ Outcome(PadRightWrite(e, w, p, Fresh(c), checks))
        /\ UNCHANGED <<checks, divisor, args>>

\* len() and write() of PadLeft::new(e, w, p) with a fresh buffer of c bytes
WritePadLeft ==
    /\ Idle
    /\ \E e \in PadInners : \E w \in 0..MaxWidth : \E p \in PadChars : \E c \in WrapCaps :
        /\ op' = "padl"
        /\ self' = e
        /\ width' = w
        /\ pad' = p
        /\ cap' = c
        /\ len' = PadLen(e, w, checks)
        /\ Outcome(PadLeftWrite(e, w, p, Fresh(c), checks))
        /\ UNCHANGED <<checks, divisor, args>>

\* write!(buff, es...) with a fresh buffer of c bytes
WriteJoin ==
    /\ Idle
    /\ \E es \in JoinInputs : \E c \in Caps :
        /\ op' = "join"
        /\ args' = es
        /\ cap' = c
        /\ len' = LenOk(0)
        /\ Outcome(JoinWrite(es, Fresh(c), checks))
        /\ UNCHANGED <<checks, self, divisor, width, pad>>

Next ==
    \/ WriteInt
    \/ WriteChar
    \/ WriteStr
    \/ WriteHex
    \/ CallWriteStr
    \/ WriteFractional
    \/ WritePadRight
    \/ WritePadLeft
    \/ WriteJoin
    \/ Return

Spec == Init /\ [][Next]_vars

----------------------------------------------------------------------------
(* What the encodings are compared with *)

\* the standard base-10 digits of m >= 0, most significant first
RECURSIVE DecimalDigits(_)
DecimalDigits(m) ==
    LET qr == MagDivSmall(m[2], 10)
    IN  IF qr[1] = <<>> THEN <<Zero + Limb(qr[2], 1)>>
        ELSE Append(DecimalDigits(<<FALSE, qr[1]>>), Zero + Limb(qr[2], 1))

\* the standard base-10 representation of v
Decimal(v) == IF IsNegative(v) THEN <<Minus>> \o DecimalDigits(Negate(v)) ELSE DecimalDigits(v)

\* the number that the digits text[1..j] denote: text[1] * 10^(j-1) + ... + text[j]
RECURSIVE DigitsValue(_, _)
DigitsValue(text, j) ==
    IF j = 0 THEN <<>> ELSE MagMulSmall(DigitsValue(text, j - 1), 10, text[j] - Zero)

\* text is the canonical decimal notation of v: an optional '-', then digits
\* without a leading zero (but "0" itself, which has no sign), denoting |v|
Denotes(text, v) ==
    LET digits == IF text # <<>> /\ text[1] = Minus THEN Tail(text) ELSE text
    IN  /\ digits # <<>>
        /\ \A j \in 1..Len(digits) : digits[j] \in Zero..(Zero + 9)
        /\ Len(digits) > 1 => digits[1] # Zero
        /\ (text[1] = Minus) = IsNegative(v)
        /\ DigitsValue(digits, Len(digits)) = v[2]

\* the lowercase hex digit of a nibble
HexDigit(x) == IF x < 10 THEN 48 + x ELSE 97 + (x - 10)

\* value / d as fixed point text with the full precision of d = 10^k
FracText(value, d) ==
    LET qr == RustDivRem(value, d)
        q == qr[1]
        r == Abs(qr[2])
        k == Len(DecimalDigits(d)) - 1
        digits == DecimalDigits(r)
    IN  IF IsZero(r) THEN Decimal(q)
        ELSE (IF IsZero(q) /\ IsNegative(value) THEN <<Minus>> ELSE <<>>)
                 \o Decimal(q) \o <<Dot>> \o Repeat(Zero, k - Len(digits)) \o digits

\* the text form of the char with scalar value c: its UTF-8 encoding
Utf8(c) ==
    CASE c < 128 -> <<c>>
      [] c \in 128..2047 -> <<192 + (c \div 64), 128 + (c % 64)>>
      [] c \in 2048..65535 ->
             <<224 + (c \div 4096), 128 + ((c \div 64) % 64), 128 + (c % 64)>>
      [] OTHER ->
             <<240 + (c \div 262144), 128 + ((c \div 4096) % 64),
               128 + ((c \div 64) % 64), 128 + (c % 64)>>

\* what a leaf value writes into a buffer of exactly its len()
EncText(e) ==
    LET n == Num(EncLen(e, checks))
    IN  SubSeq(Buf(EncWrite(e, Fresh(n), checks)), 1, n)

RECURSIVE Concat(_, _)
Concat(es, j) == IF j <= 0 THEN <<>> ELSE Concat(es, j - 1) \o EncText(es[j])

\* the number of leading elements of es that fit together into c bytes
RECURSIVE Fitting(_, _, _)
Fitting(es, j, c) ==
    IF j > Len(es) \/ Len(Concat(es, j)) > c THEN j - 1 ELSE Fitting(es, j + 1, c)

\* the first n bytes of the buffer after the call
Written(n) == SubSeq(buff, 1, n)

----------------------------------------------------------------------------
(* Claims *)

\* C1: for u8, u16, u32, u64, usize, i8, i16, i32 and i64 and every value but
\* the signed minimum, len() is the length of the standard base-10
\* representation, and write() into a buffer of at least len() bytes returns
\* len() and leaves that representation in buff[0..len()).
C1_DecimalEncoding ==
    (/\ op = "int"
     /\ TypeOf(self) \in UintTypes \cup SintTypes
     /\ ~IsSignedMin(TypeOf(self), ValOf(self)))
    => LET d == Decimal(ValOf(self))
       IN  /\ Denotes(d, ValOf(self))
           /\ len = LenOk(Len(d))
           /\ cap >= Len(d) => (ret = LenOk(Len(d)) /\ Written(Len(d)) = d)

\* i64::MIN + 1 written into twenty bytes: "-9223372036854775807" (test::encode_i64)
C1_Witness ==
    /\ op = "int"
    /\ self = IntVal("i64", Add(MinOf("i64"), I(1)))
    /\ cap = 20
    /\ len = LenOk(20)
    /\ ret = LenOk(20)
    /\ buff = <<45, 57, 50, 50, 51, 51, 55, 50, 48, 51, 54, 56, 53, 52, 55, 55, 53, 56, 48, 55>>

\* C2: for a Fractional of any type with a power of ten as divisor and an
\* integer part that is not the signed minimum, the output is the decimal of
\* the integer part alone when the decimal part is zero, and else an extra
\* '-' for a negative value with integer part zero, the integer part, '.',
\* and the decimal part padded with '0' to the divisor's number of zeroes;
\* len() is the length of that output and write() returns it.
\* It fails for Fractional<isize>, whose integer part goes through the
\* unsigned encoder: Fractional::<isize>::new(-15, 10) has len() = 2 and
\* writes ".5".
C2_FractionalText ==
    (/\ op = "frac"
     /\ divisor \in Pow10s
     /\ ~IsSignedMin(TypeOf(self), RustDiv(ValOf(self), divisor)))
    => LET text == FracText(ValOf(self), divisor)
       IN  /\ len = LenOk(Len(text))
           /\ cap >= Len(text) => (ret = LenOk(Len(text)) /\ Written(Len(text)) = text)

\* C3: Fractional(10, 100) has len() = 3 and writes "0.1", and
\* Fractional(-10, 100) has len() = 3 and writes "-0.1" (test::fractional_i16).
C3_TrailingZeroTrimmed ==
    (op = "frac" /\ TypeOf(self) = "i16" /\ divisor = I(100) /\ Res(ret) = "Ok")
    => /\ ValOf(self) = I(10)
            => (len = LenOk(3) /\ Written(Num(ret)) = <<48, 46, 49>>)
       /\ ValOf(self) = I(-10)
            => (len = LenOk(3) /\ Written(Num(ret)) = <<45, 48, 46, 49>>)

\* C4: write! is a left to right fold: when the buffer holds the sum of the
\* elements' lengths it returns that sum and the buffer starts with the
\* encodings in argument order; when an element does not fit, the call
\* returns its error, the encodings of the elements before it are in the
\* buffer and nothing is written after them.
C4_JoinIsSequentialFold ==
    (op = "join" /\ \A j \in 1..Len(args) : Res(EncLen(args[j], checks)) = "Ok")
    => LET total == Len(Concat(args, Len(args)))
           fit == Fitting(args, 1, cap)
           done == Concat(args, fit)
       IN  /\ cap >= total => (ret = LenOk(total) /\ Written(total) = Concat(args, Len(args)))
           /\ cap < total
                => (/\ ret = <<"BufferLength", 0>>
                    /\ buff = done \o Fresh(cap - Len(done)))

\* write!(buff, "something", ' ', 15u8, '/', 100u8) gives "something 15/100" and 16
C4_Witness ==
    /\ op = "join"
    /\ args = JoinDoc
    /\ cap = 16
    /\ ret = LenOk(16)
    /\ buff = <<115, 111, 109, 101, 116, 104, 105, 110, 103, 32, 49, 53, 47, 49, 48, 48>>

\* C5: for a Pad with an ASCII fill character and a buffer of at least
\* max(width, inner.len()) bytes, len() and the value write() returns are
\* max(width, inner.len()); PadRight writes the inner encoding and then the
\* fill characters, PadLeft the fill characters and then the inner encoding,
\* max(width, inner.len()) - inner.len() of them; the inner encoding is never cut.
C5_PadToWidth ==
    (/\ op \in {"padl", "padr"}
     /\ pad < 128
     /\ Res(EncLen(self, checks)) = "Ok"
     /\ cap >= Max(width, Num(EncLen(self, checks))))
    => LET n == Num(EncLen(self, checks))
           m == Max(width, n)
           fill == Repeat(pad, m - n)
       IN  /\ len = LenOk(m)
           /\ ret = LenOk(m)
           /\ op = "padr" => Written(m) = EncText(self) \o fill
           /\ op = "padl" => Written(m) = fill \o EncText(self)
           /\ width <= n => Written(m) = EncText(self)

\* PadLeft::new("123", 6, ' ') written into six bytes: "   123"
C5_Witness ==
    /\ op = "padl"
    /\ self = Str(<<49, 50, 51>>)
    /\ width = 6
    /\ pad = Space
    /\ cap = 6
    /\ ret = LenOk(6)
    /\ buff = <<32, 32, 32, 49, 50, 51>>

\* C6: Hex(b).len() is twice the length of b, and write() into a buffer of
\* at least that size returns it and stores for every byte of b the lowercase
\* hex digit of its high nibble and then that of its low nibble.
C6_HexEncoding ==
    op = "hex"
    => LET bs == BytesOf(self)
       IN  /\ len = LenOk(2 * Len(bs))
           /\ cap >= 2 * Len(bs)
                => (/\ ret = LenOk(2 * Len(bs))
                    /\ \A i \in 0..(Len(bs) - 1) :
                          /\ buff[2 * i + 1] = HexDigit(bs[i + 1] \div 16)
                          /\ buff[2 * i + 2] = HexDigit(bs[i + 1] % 16)
                    /\ \A j \in 1..(2 * Len(bs)) : buff[j] \in (48..57) \cup (97..102))

\* Hex([0x00, 0x12, 0x34, 0x56, 0x78, 0x9a, 0xbc, 0xde]) gives "00123456789abcde"
C6_Witness ==
    /\ op = "hex"
    /\ self = HexOf(HexData)
    /\ cap = 16
    /\ ret = LenOk(16)
    /\ buff = <<48, 48, 49, 50, 51, 52, 53, 54, 55, 56, 57, 97, 98, 99, 100, 101>>

\* C7: write() of an integer, a char, a &str or a Hex into a buffer shorter
\* than its len() returns Err(BufferLength) and changes no byte of the buffer.
C7_LeafShortBuffer ==
    (/\ op \in {"int", "char", "str", "hex"}
     /\ Res(len) = "Ok"
     /\ cap < Num(len))
    => (ret = <<"BufferLength", 0>> /\ buff = Fresh(cap))

\* -9i8 needs two bytes and is given one
C7_Witness ==
    /\ op = "int"
    /\ self = IntVal("i8", I(-9))
    /\ len = LenOk(2)
    /\ cap = 1
    /\ ret = <<"BufferLength", 0>>
    /\ buff = <<0>>

\* C8: write() of a PadLeft, a PadRight or a Fractional (with a power of ten
\* as divisor) into a buffer shorter than its len() returns Err(BufferLength)
\* (and does not panic on an index beyond the buffer).
C8_WrapperShortBuffer ==
    (/\ op \in {"padl", "padr"} \/ (op = "frac" /\ divisor \in Pow10s)
     /\ Res(len) = "Ok"
     /\ cap < Num(len))
    => Res(ret) = "BufferLength"

\* C9: isize is encoded as i64 is: for every isize value but the minimum,
\* negative ones included, len() and write() give what the i64 encoder gives
\* for the same number, the decimal representation with a leading '-', of
\* non-zero length.
C9_IsizeLikeI64 ==
    (op = "int" /\ TypeOf(self) = "isize" /\ ~IsSignedMin("isize", ValOf(self)))
    => LET w == IntWrite("i64", ValOf(self), Fresh(cap), checks)
       IN  /\ len = IntLen("i64", ValOf(self), checks)
           /\ ret = <<Res(w), Num(w)>>
           /\ buff = Buf(w)
           /\ Num(len) > 0

\* C10 as stated: for every value and every positive divisor, write() into a
\* buffer of exactly len() bytes succeeds and the number write() returns on a
\* buffer that is large enough is len().
C10_AgreeAnyDivisor ==
    (op = "frac" /\ IsPositive(divisor) /\ Res(len) = "Ok")
    => /\ cap = Num(len) => Res(ret) = "Ok"
       /\ Res(ret) = "Ok" => Num(ret) = Num(len)

\* C10 as amended: the same for every divisor that is a power of ten.
C10_AgreePowerOfTen ==
    (op = "frac" /\ divisor \in Pow10s /\ Res(len) = "Ok")
    => /\ cap = Num(len) => Res(ret) = "Ok"
       /\ Res(ret) = "Ok" => Num(ret) = Num(len)

\* Fractional::<i16>::new(-9, 10) has len() = 4 and is written into four bytes
C10_Witness ==
    /\ op = "frac"
    /\ self = IntVal("i16", I(-9))
    /\ divisor = I(10)
    /\ len = LenOk(4)
    /\ cap = 4
    /\ ret = LenOk(4)
    /\ buff = <<45, 48, 46, 57>>

\* C11: the char and &str encoders emit their input verbatim. For every char
\* c, ASCII or not, write() and write_str() into a buffer with room for c
\* succeed and leave the bytes of c's text form at the start of the buffer,
\* so write_str() returns text equal to c and never InvalidUtf8 or another
\* character; for every &str s, write() and write_str() into a buffer of at
\* least s.len() bytes copy exactly the bytes of s and return their count.
C11_CharAndStrVerbatim ==
    /\ (/\ op \in {"char", "write_str"}
        /\ KindOf(self) = "char"
        /\ cap >= Len(Utf8(ValOf(self))))
       => /\ Res(ret) = "Ok"
          /\ Written(Num(ret)) = Utf8(ValOf(self))
    /\ (/\ op \in {"str", "write_str"}
        /\ KindOf(self) = "str"
        /\ cap >= Len(BytesOf(self)))
       => /\ ret = LenOk(Len(BytesOf(self)))
          /\ Written(Num(ret)) = BytesOf(self)

====
